---- MODULE Spec2Model ----
(***************************************************************************)
(* Model of Resources/Values/Extractor.py: the apworld table extractor.    *)
(* One run of the script is a walk of pc from "start" to "done"; the       *)
(* process-wide state of the interpreter (sys.modules, sys.path and the    *)
(* module objects reachable from sys.modules) survives from run to run.    *)
(***************************************************************************)
EXTENDS Integers, Sequences, FiniteSets, TLC

\* Number of times the script body is run inside one interpreter process.
MaxRuns == 2

----------------------------------------------------------------------------
(* Python values *)

PyNone == [t |-> "None"]
PyStr(s) == [t |-> "str", s |-> s]
PyInt(n) == [t |-> "int", n |-> n]
\* a set object: the one kind of table value json cannot encode
PySet == [t |-> "set"]
\* the table object that package pkg's Data.py binds to attribute attr
PyTable(pkg, attr) == [t |-> "table", pkg |-> pkg, attr |-> attr]

NoExc == [type |-> "None", arg |-> "", line |-> 0]
Exc(type, arg, line) == [type |-> type, arg |-> arg, line |-> line]

Falsy_none_only(v) == v.t = "None"
\* `not v` for the values os.environ.get can return
Falsy(v) == v.t = "None" \/ (v.t = "str" /\ v.s = <<>>)

----------------------------------------------------------------------------
(* Inputs *)

\* characters that occur in the environment values; "sup2" stands for the
\* superscript two U+00B2, a character str.isdigit accepts and int rejects
AsciiDigits == {"0", "1", "2", "3", "4", "5", "6", "7", "8", "9"}
DigitChars == AsciiDigits \cup {"sup2"}

ArchivePath == <<"w", ".", "z">>
RepoPath == <<"/", "a", "p">>
PathValues == {<<>>, ArchivePath}
RepoValues == {<<>>, RepoPath}
IndentValues == {<<>>, <<"2">>, <<" ", " ">>, <<"a", "b", "c">>, <<"-", "2">>, <<"sup2">>}

\* every environment the script can be started in; a field holds what
\* os.environ.get returns for that variable
Environments ==
    [ APWORLD_PATH : {PyNone} \cup {PyStr(p) : p \in PathValues},
      ARCHIPELAGO_REPO_PATH : {PyNone} \cup {PyStr(p) : p \in RepoValues},
      DEBUG_INDENT : {PyNone} \cup {PyStr(p) : p \in IndentValues} ]

\* top-level entry names an archive can contain
Names == {"alpha", "beta"}

Required == <<"game_table", "item_table", "location_table", "region_table">>
Optional == <<"category_table", "option_table", "meta_table">>
RequiredSet == {Required[i] : i \in 1..Len(Required)}
OptionalSet == {Optional[i] : i \in 1..Len(Optional)}
Attrs == RequiredSet \cup OptionalSet

\* the sets of attributes a Data.py may define: all required ones with any
\* choice of optional ones, exactly one required one missing, or none at all
Shapes ==
    { S \in SUBSET Attrs :
        \/ RequiredSet \subseteq S
        \/ OptionalSet \subseteq S /\ Cardinality(RequiredSet \ S) = 1
        \/ S = {} }

Plain(pkg, S) == [a \in S |-> PyTable(pkg, a)]

\* the namespaces Data.py of package pkg can leave in its module object
DataModules(pkg) ==
    { Plain(pkg, S) : S \in Shapes }
      \cup { [Plain(pkg, Attrs) EXCEPT !["item_table"] = PySet],
             [Plain(pkg, Attrs) EXCEPT !["meta_table"] = PySet],
             [Plain(pkg, Attrs) EXCEPT !["category_table"] = PyNone] }

\* what running Data.py does: the attributes bound, and the exception raised
PluginOutcomes(pkg) ==
    { [attrs |-> m, exc |-> NoExc] : m \in DataModules(pkg) }
      \cup { [attrs |-> Plain(pkg, S), exc |-> Exc("PluginError", "plugin", 54)] :
                S \in {{}, {"game_table"}} }
      \cup { [attrs |-> Plain(pkg, {}), exc |-> Exc("FileNotFoundError", "Data.py", 54)] }

\* what Data.py does to sys.path while it runs
PathEffects == {"none", "append", "pop", "rebind"}
PluginDir == <<"p">>

\* sys.path of a freshly started interpreter
SysPath0 == << <<"l", "i", "b">> >>

----------------------------------------------------------------------------
(* Library functions the script calls *)

\* str.isdigit: at least one character, and every character a digit
isdigit(s) == Len(s) > 0 /\ \A i \in 1..Len(s) : s[i] \in DigitChars

\* int(str) raises ValueError unless every character is an ASCII digit
IntParses(s) == Len(s) > 0 /\ \A i \in 1..Len(s) : s[i] \in AsciiDigits

DigitVal(c) ==
    CASE c = "0" -> 0 [] c = "1" -> 1 [] c = "2" -> 2 [] c = "3" -> 3
      [] c = "4" -> 4 [] c = "5" -> 5 [] c = "6" -> 6 [] c = "7" -> 7
      [] c = "8" -> 8 [] c = "9" -> 9

RECURSIVE int(_)
int(s) ==
    IF Len(s) = 0 THEN 0
    ELSE 10 * int(SubSeq(s, 1, Len(s) - 1)) + DigitVal(s[Len(s)])

ParsedIndent_or_None(v) ==
    IF ~Falsy(v) /\ isdigit(v.s) THEN PyInt(int(v.s)) ELSE PyNone
\* debug_indent after lines 21-23: the digits as an int, anything else as is
ParsedIndent(v) ==
    IF ~Falsy(v) /\ isdigit(v.s) THEN PyInt(int(v.s)) ELSE v

module_key_unscoped(name) == "manual_data_Data"
\* the key the data module is registered under in sys.modules
module_key_of(name) == "manual_data_" \o name

(* json.dump writes the chunks of JSONEncoder.iterencode one by one; stdout *)
(* is the sequence of chunks written.                                      *)
LBrace == [k |-> "{"]
RBrace == [k |-> "}"]
\* ", " between the members of the compact form
ItemSep == [k |-> ", "]
\* "," between the members of the indented form
Comma == [k |-> ","]
KeySep == [k |-> ": "]
\* a line break followed by one indent unit per nesting level
NewLine(indent) == [k |-> "\n", indent |-> indent]
Key(name) == [k |-> "key", name |-> name]
Value(text) == [k |-> "value", text |-> text]

\* the JSON text of a table value
JsonText(v) ==
    IF v.t = "None" THEN [json |-> "null"]
    ELSE [json |-> "table", pkg |-> v.pkg, attr |-> v.attr]

Serializable(v) == v.t \in {"None", "table"}

\* the indent unit: an int is that many spaces, a str is used as it is
IndentUnit(indent) ==
    IF indent.t = "int" THEN [i \in 1..indent.n |-> " "] ELSE indent.s

RECURSIVE EncodeItems(_, _, _)
\* the chunks for members i.. of the dict; stops at a value json cannot encode
EncodeItems(doc, i, indent) ==
    IF i > Len(doc) THEN [out |-> <<>>, ok |-> TRUE]
    ELSE
      LET sep == IF i = 1 THEN <<>>
                 ELSE IF indent.t = "None" THEN <<ItemSep>>
                 ELSE <<Comma, NewLine(IndentUnit(indent))>>
          pre == sep \o <<Key(doc[i][1]), KeySep>>
      IN  IF ~Serializable(doc[i][2]) THEN [out |-> pre, ok |-> FALSE]
          ELSE LET rest == EncodeItems(doc, i + 1, indent)
               IN  [out |-> pre \o <<Value(JsonText(doc[i][2]))>> \o rest.out,
                    ok |-> rest.ok]

\* what json.dump(doc, fp, indent=indent) writes, and whether it returns
json_dump(doc, indent) ==
    LET open == <<LBrace>> \o
                (IF indent.t = "None" THEN <<>> ELSE <<NewLine(IndentUnit(indent))>>)
        items == EncodeItems(doc, 1, indent)
        close == (IF indent.t = "None" THEN <<>> ELSE <<NewLine(<<>>)>>) \o <<RBrace>>
    IN  IF items.ok THEN [out |-> open \o items.out \o close, ok |-> TRUE]
        ELSE [out |-> open \o items.out, ok |-> FALSE]

FirstMissing_unnamed(attrs, i) ==
    IF RequiredSet \subseteq DOMAIN attrs THEN "none" ELSE "required table"
RECURSIVE FirstMissing(_, _)
\* the first required attribute, from position i on, the module lacks
FirstMissing(attrs, i) ==
    IF i > Len(Required) THEN "none"
    ELSE IF Required[i] \notin DOMAIN attrs THEN Required[i]
    ELSE FirstMissing(attrs, i + 1)

getattr_or_None(attrs, a) == IF a \in DOMAIN attrs THEN attrs[a] ELSE PyNone

OutputDocument_pasted(attrs) ==
    << <<"game.json", attrs["game_table"]>>,
       <<"items.json", attrs["item_table"]>>,
       <<"locations.json", attrs["location_table"]>>,
       <<"regions.json", attrs["region_table"]>>,
       <<"categories.json", getattr_or_None(attrs, "category_table")>>,
       <<"options.json", getattr_or_None(attrs, "category_table")>>,
       <<"meta.json", getattr_or_None(attrs, "meta_table")>> >>
\* the dict literal of lines 59-77, members in source order
OutputDocument(attrs) ==
    << <<"game.json", attrs["game_table"]>>,
       <<"items.json", attrs["item_table"]>>,
       <<"locations.json", attrs["location_table"]>>,
       <<"regions.json", attrs["region_table"]>>,
       <<"categories.json", getattr_or_None(attrs, "category_table")>>,
       <<"options.json", getattr_or_None(attrs, "option_table")>>,
       <<"meta.json", getattr_or_None(attrs, "meta_table")>> >>

----------------------------------------------------------------------------
(* State *)

VARIABLES
    pc,                 \* position in the script: the statement to run next
    runs,               \* number of runs started in this process
    environ,            \* os.environ of the current run
    debug_indent,       \* lines 21-23
    apworld_zip,        \* line 26: "closed" or "open"
    temp_world_folder,  \* line 28: "unbound" or the staging directory "tmp"
    tmp_exists,         \* whether the staging directory exists on disk
    tmp_entries,        \* os.listdir of the staging directory
    apworld_name,       \* line 30
    module_key,         \* line 37
    module_spec,        \* line 39: "unbound", "None" or "spec"
    data_module,        \* line 48: the module object, 0 while unbound
    sys_modules,        \* sys.modules: key -> module object
    module_attrs,       \* module object -> its namespace
    exec_count,         \* module object -> times its code was executed
    sys_path,           \* the list bound to sys.path
    original_sys_path,  \* line 51: the list bound to original_sys_path
    same_list,          \* whether the two names are bound to one list object
    table_dict,         \* the dict built by lines 59-77, <<>> until then
    stdout,             \* the chunks this run wrote to sys.stdout
    exc                 \* the exception in flight, or the one that ended the run

vars == <<pc, runs, environ, debug_indent, apworld_zip, temp_world_folder,
          tmp_exists, tmp_entries, apworld_name, module_key, module_spec,
          data_module, sys_modules, module_attrs, exec_count, sys_path,
          original_sys_path, same_list, table_dict, stdout, exc>>

Init ==
    /\ pc = "idle"
    /\ runs = 0
    /\ environ = [APWORLD_PATH |-> PyNone, ARCHIPELAGO_REPO_PATH |-> PyNone,
                  DEBUG_INDENT |-> PyNone]
    /\ debug_indent = PyNone
    /\ apworld_zip = "closed"
    /\ temp_world_folder = "unbound"
    /\ apworld_name = ""
    /\ module_key = ""
    /\ module_spec = "unbound"
    /\ data_module = 0
    /\ original_sys_path = <<>>
    /\ same_list = FALSE
    /\ table_dict = <<>>
    /\ stdout = <<>>
    /\ exc = NoExc
    /\ tmp_exists = FALSE
    /\ tmp_entries = {}
    /\ sys_modules = [k \in {} |-> 0]
    /\ module_attrs = [m \in {} |-> 0]
    /\ exec_count = [m \in {} |-> 0]
    /\ sys_path = SysPath0

----------------------------------------------------------------------------
(* Control transfer *)

\* an exception raised outside the with block ends the run
RaiseTop(e) == exc' = e /\ pc' = "done"

RaiseInWith_leak(e) == exc' = e /\ pc' = "done"
\* an exception raised inside the with block unwinds through its __exit__
RaiseInWith(e) == exc' = e /\ pc' = "unwind"

finally_exit_swallow(e) == [pc |-> "build", exc |-> NoExc]
\* leaving the try statement of lines 52-56: an exception in flight goes on
finally_exit(e) ==
    [pc |-> IF e.type # "None" THEN "unwind" ELSE "build", exc |-> e]

SavedPath_alias == [list |-> sys_path, same_list |-> TRUE]
\* sys.path.copy(): a new list object with the same items
SavedPath == [list |-> sys_path, same_list |-> FALSE]

\* a mutation of the list object bound to sys.path
MutatePath(new) ==
    /\ sys_path' = new
    /\ original_sys_path' = IF same_list THEN new ELSE original_sys_path
    /\ same_list' = same_list

\* the smallest free object identity
FreshId == CHOOSE i \in 1..(Cardinality(DOMAIN module_attrs) + 1) :
               i \notin DOMAIN module_attrs

module_from_cache ==
    IF module_key \in DOMAIN sys_modules THEN sys_modules[module_key] ELSE FreshId
\* importlib.util.module_from_spec: a new module object
module_from_spec == FreshId

----------------------------------------------------------------------------
(* The script, statement by statement *)

\* the script is started (again) in the same interpreter
StartRun ==
    /\ pc \in {"idle", "done"}
    /\ runs < MaxRuns
    /\ runs' = runs + 1
    /\ environ' \in Environments
    /\ pc' = "start"
    /\ debug_indent' = PyNone
    /\ apworld_zip' = "closed"
    /\ temp_world_folder' = "unbound"
    /\ apworld_name' = ""
    /\ module_key' = ""
    /\ module_spec' = "unbound"
    /\ data_module' = 0
    /\ original_sys_path' = <<>>
    /\ same_list' = FALSE
    /\ table_dict' = <<>>
    /\ stdout' = <<>>
    /\ exc' = NoExc
    /\ UNCHANGED <<tmp_exists, tmp_entries, sys_modules, module_attrs,
                   exec_count, sys_path>>

\* lines 12-14
CheckApworldPath ==
    /\ pc = "start"
    /\ IF Falsy(environ.APWORLD_PATH)
       THEN RaiseTop(Exc("Exception", "Missing APWORLD_PATH environment variable", 14))
       ELSE pc' = "repo" /\ exc' = exc
    /\ UNCHANGED <<runs, environ, debug_indent, apworld_zip, temp_world_folder,
                   tmp_exists, tmp_entries, apworld_name, module_key,
                   module_spec, data_module, sys_modules, module_attrs,
                   exec_count, sys_path, original_sys_path, same_list,
                   table_dict, stdout>>

\* lines 16-18
CheckRepoPath ==
    /\ pc = "repo"
    /\ IF Falsy(environ.ARCHIPELAGO_REPO_PATH)
       THEN RaiseTop(Exc("Exception", "Missing ARCHIPELAGO_REPO_PATH environment variable", 18))
       ELSE pc' = "indent" /\ exc' = exc
    /\ UNCHANGED <<runs, environ, debug_indent, apworld_zip, temp_world_folder,
                   tmp_exists, tmp_entries, apworld_name, module_key,
                   module_spec, data_module, sys_modules, module_attrs,
                   exec_count, sys_path, original_sys_path, same_list,
                   table_dict, stdout>>

\* lines 21-23
ParseIndent ==
    /\ pc = "indent"
    /\ LET v == environ.DEBUG_INDENT
       IN  IF ~Falsy(v) /\ isdigit(v.s) /\ ~IntParses(v.s)
           THEN /\ RaiseTop(Exc("ValueError", "invalid literal for int()", 23))
                /\ debug_indent' = v
           ELSE /\ debug_indent' = ParsedIndent(v)
                /\ pc' = "open"
                /\ exc' = exc
    /\ UNCHANGED <<runs, environ, apworld_zip, temp_world_folder,
                   tmp_exists, tmp_entries, apworld_name, module_key,
                   module_spec, data_module, sys_modules, module_attrs,
                   exec_count, sys_path, original_sys_path, same_list,
                   table_dict, stdout>>

\* lines 25-26: ZipFile raises when the path is no readable zip archive
OpenZip ==
    /\ pc = "open"
    /\ \E readable \in BOOLEAN :
         IF readable
         THEN apworld_zip' = "open" /\ pc' = "with" /\ exc' = exc
         ELSE apworld_zip' = apworld_zip /\ RaiseTop(Exc("BadZipFile", "archive", 26))
    /\ UNCHANGED <<runs, environ, debug_indent, temp_world_folder,
                   tmp_exists, tmp_entries, apworld_name, module_key,
                   module_spec, data_module, sys_modules, module_attrs,
                   exec_count, sys_path, original_sys_path, same_list,
                   table_dict, stdout>>

\* line 28: TemporaryDirectory.__enter__ creates the staging directory
EnterWith ==
    /\ pc = "with"
    /\ temp_world_folder' = "tmp"
    /\ tmp_exists' = TRUE
    /\ tmp_entries' = {}
    /\ pc' = "extract"
    /\ UNCHANGED <<runs, environ, debug_indent, apworld_zip, apworld_name,
                   module_key, module_spec, data_module, sys_modules,
                   module_attrs, exec_count, sys_path, original_sys_path,
                   same_list, table_dict, stdout, exc>>

\* line 29: the archive's top-level entries appear in the staging directory;
\* a corrupt member makes extractall raise after some were written
ExtractAll ==
    /\ pc = "extract"
    /\ \E entries \in SUBSET Names, complete \in BOOLEAN :
         /\ tmp_entries' = entries
         /\ IF complete
            THEN pc' = "list" /\ exc' = exc
            ELSE RaiseInWith(Exc("BadZipFile", "member", 29))
    /\ UNCHANGED <<runs, environ, debug_indent, apworld_zip, temp_world_folder,
                   tmp_exists, apworld_name, module_key, module_spec,
                   data_module, sys_modules, module_attrs, exec_count,
                   sys_path, original_sys_path, same_list, table_dict, stdout>>

\* lines 30-37: os.listdir returns the entries in arbitrary order
PickName ==
    /\ pc = "list"
    /\ IF tmp_entries = {}
       THEN /\ RaiseInWith(Exc("IndexError", "list index out of range", 30))
            /\ UNCHANGED <<apworld_name, module_key>>
       ELSE \E first \in tmp_entries :
              /\ apworld_name' = first
              /\ module_key' = module_key_of(first)
              /\ pc' = "spec"
              /\ exc' = exc
    /\ UNCHANGED <<runs, environ, debug_indent, apworld_zip, temp_world_folder,
                   tmp_exists, tmp_entries, module_spec, data_module,
                   sys_modules, module_attrs, exec_count, sys_path,
                   original_sys_path, same_list, table_dict, stdout>>

\* lines 39-46: spec_from_file_location returns a spec or None
MakeSpec ==
    /\ pc = "spec"
    /\ \E built \in BOOLEAN :
         IF built
         THEN module_spec' = "spec" /\ pc' = "module" /\ exc' = exc
         ELSE /\ module_spec' = "None"
              /\ RaiseInWith(Exc("Exception", "Failed to create module spec", 46))
    /\ UNCHANGED <<runs, environ, debug_indent, apworld_zip, temp_world_folder,
                   tmp_exists, tmp_entries, apworld_name, module_key,
                   data_module, sys_modules, module_attrs, exec_count,
                   sys_path, original_sys_path, same_list, table_dict, stdout>>

\* lines 48-49: the module object is created and registered; a module object
\* the registry no longer refers to is reclaimed
CreateModule ==
    /\ pc = "module"
    /\ LET m == module_from_spec
           registry == [k \in DOMAIN sys_modules \cup {module_key} |->
                          IF k = module_key THEN m ELSE sys_modules[k]]
           live == {registry[k] : k \in DOMAIN registry}
       IN  /\ data_module' = m
           /\ sys_modules' = registry
           /\ module_attrs' = [i \in live |->
                                IF i \in DOMAIN module_attrs THEN module_attrs[i]
                                ELSE Plain(apworld_name, {})]
           /\ exec_count' = [i \in live |->
                                IF i \in DOMAIN exec_count THEN exec_count[i] ELSE 0]
    /\ pc' = "path"
    /\ UNCHANGED <<runs, environ, debug_indent, apworld_zip, temp_world_folder,
                   tmp_exists, tmp_entries, apworld_name, module_key,
                   module_spec, sys_path, original_sys_path, same_list,
                   table_dict, stdout, exc>>

\* lines 51-53
SavePath ==
    /\ pc = "path"
    /\ LET saved == SavedPath
           appended == Append(sys_path, environ.ARCHIPELAGO_REPO_PATH.s)
       IN  /\ same_list' = saved.same_list
           /\ sys_path' = appended
           /\ original_sys_path' = IF saved.same_list THEN appended ELSE saved.list
    /\ pc' = "exec"
    /\ UNCHANGED <<runs, environ, debug_indent, apworld_zip, temp_world_folder,
                   tmp_exists, tmp_entries, apworld_name, module_key,
                   module_spec, data_module, sys_modules, module_attrs,
                   exec_count, table_dict, stdout, exc>>

\* line 54: Data.py runs in the module's namespace
ExecModule ==
    /\ pc = "exec"
    /\ \E o \in PluginOutcomes(apworld_name), effect \in PathEffects :
         /\ module_attrs' = [module_attrs EXCEPT ![data_module] = o.attrs]
         /\ exec_count' = [exec_count EXCEPT ![data_module] = @ + 1]
         /\ exc' = o.exc
         /\ CASE effect = "none" -> MutatePath(sys_path)
              [] effect = "append" -> MutatePath(Append(sys_path, PluginDir))
              [] effect = "pop" -> MutatePath(SubSeq(sys_path, 1, Len(sys_path) - 1))
              [] effect = "rebind" ->
                    /\ sys_path' = <<PluginDir>>
                    /\ same_list' = FALSE
                    /\ original_sys_path' = original_sys_path
    /\ pc' = "finally"
    /\ UNCHANGED <<runs, environ, debug_indent, apworld_zip, temp_world_folder,
                   tmp_exists, tmp_entries, apworld_name, module_key,
                   module_spec, data_module, sys_modules, table_dict, stdout>>

\* line 56
Finally ==
    /\ pc = "finally"
    /\ sys_path' = original_sys_path
    /\ same_list' = TRUE
    /\ pc' = finally_exit(exc).pc
    /\ exc' = finally_exit(exc).exc
    /\ UNCHANGED <<runs, environ, debug_indent, apworld_zip, temp_world_folder,
                   tmp_exists, tmp_entries, apworld_name, module_key,
                   module_spec, data_module, sys_modules, module_attrs,
                   exec_count, original_sys_path, table_dict, stdout>>

\* lines 59-77: the argument of json.dump is evaluated before the call
BuildDict ==
    /\ pc = "build"
    /\ LET attrs == module_attrs[data_module]
           missing == FirstMissing(attrs, 1)
       IN  IF missing # "none"
           THEN /\ RaiseInWith(Exc("AttributeError", missing, 60))
                /\ table_dict' = table_dict
           ELSE /\ table_dict' = OutputDocument(attrs)
                /\ pc' = "dump"
                /\ exc' = exc
    /\ UNCHANGED <<runs, environ, debug_indent, apworld_zip, temp_world_folder,
                   tmp_exists, tmp_entries, apworld_name, module_key,
                   module_spec, data_module, sys_modules, module_attrs,
                   exec_count, sys_path, original_sys_path, same_list, stdout>>

\* lines 58, 78-80
Dump ==
    /\ pc = "dump"
    /\ LET written == json_dump(table_dict, debug_indent)
       IN  /\ stdout' = stdout \o written.out
           /\ IF written.ok
              THEN pc' = "exit" /\ exc' = exc
              ELSE RaiseInWith(Exc("TypeError", "not JSON serializable", 58))
    /\ UNCHANGED <<runs, environ, debug_indent, apworld_zip, temp_world_folder,
                   tmp_exists, tmp_entries, apworld_name, module_key,
                   module_spec, data_module, sys_modules, module_attrs,
                   exec_count, sys_path, original_sys_path, same_list,
                   table_dict>>

\* line 28: TemporaryDirectory.__exit__ removes the staging directory, on
\* normal exit and on an exception alike
ExitWith ==
    /\ pc \in {"exit", "unwind"}
    /\ tmp_exists' = FALSE
    /\ tmp_entries' = {}
    /\ pc' = "done"
    /\ UNCHANGED <<runs, environ, debug_indent, apworld_zip, temp_world_folder,
                   apworld_name, module_key, module_spec, data_module,
                   sys_modules, module_attrs, exec_count, sys_path,
                   original_sys_path, same_list, table_dict, stdout, exc>>

Next ==
    \/ StartRun
    \/ CheckApworldPath
    \/ CheckRepoPath
    \/ ParseIndent
    \/ OpenZip
    \/ EnterWith
    \/ ExtractAll
    \/ PickName
    \/ MakeSpec
    \/ CreateModule
    \/ SavePath
    \/ ExecModule
    \/ Finally
    \/ BuildDict
    \/ Dump
    \/ ExitWith

Spec == Init /\ [][Next]_vars

----------------------------------------------------------------------------
(* Properties *)

\* the value a JSON text reads back as
JsonValue(text) ==
    IF text.json = "null" THEN PyNone ELSE PyTable(text.pkg, text.attr)

\* what a reader of stdout finds in it
StdoutKeys ==
    LET ks == SelectSeq(stdout, LAMBDA c : c.k = "key")
    IN  [i \in 1..Len(ks) |-> ks[i].name]
StdoutValues ==
    LET vs == SelectSeq(stdout, LAMBDA c : c.k = "value")
    IN  [i \in 1..Len(vs) |-> JsonValue(vs[i].text)]
SingleLine == \A i \in 1..Len(stdout) : stdout[i].k # "\n"

\* the run got as far as executing Data.py, and Data.py did not raise
Executed == data_module # 0 /\ pc \in {"build", "dump", "exit", "unwind", "done"}
                /\ exc.line # 54

Missing(v) == v = PyNone \/ v = PyStr(<<>>)
MissingConfig ==
    Missing(environ.APWORLD_PATH) \/ Missing(environ.ARCHIPELAGO_REPO_PATH)

\* C1: once a run that created the staging directory has ended, on whatever
\* path, the staging directory does not exist.
C1_StagingRemoved ==
    (pc = "done" /\ temp_world_folder # "unbound") => ~tmp_exists
C1_Witness ==
    pc = "done" /\ temp_world_folder = "tmp" /\ exc.type = "TypeError" /\ ~tmp_exists

\* C2: the repository path is the last entry of sys.path when Data.py starts,
\* and outside the load step sys.path has the contents it had before it,
\* whatever Data.py did to it and whether or not it raised.
C2_PathRestored ==
    /\ pc = "exec" => sys_path = Append(SysPath0, environ.ARCHIPELAGO_REPO_PATH.s)
    /\ pc \notin {"exec", "finally"} => sys_path = SysPath0
C2_Witness ==
    pc = "unwind" /\ exc.type = "PluginError" /\ sys_path = SysPath0 /\ same_list

\* C3: runs for different package names use different registry keys, so each
\* key of the registry holds the module of its own package, distinct keys hold
\* distinct module objects, and a document is made of the tables of the
\* package of the run that wrote it.
C3_NoStaleModule ==
    /\ \A n \in Names :
         module_key_of(n) \in DOMAIN sys_modules =>
           LET attrs == module_attrs[sys_modules[module_key_of(n)]]
           IN  \A a \in DOMAIN attrs : attrs[a].t = "table" => attrs[a].pkg = n
    /\ \A k1, k2 \in DOMAIN sys_modules :
         k1 # k2 => sys_modules[k1] # sys_modules[k2]
    /\ (pc = "done" /\ exc = NoExc) =>
         /\ sys_modules[module_key] = data_module
         /\ \A i \in 1..Len(StdoutValues) :
              StdoutValues[i].t = "table" => StdoutValues[i].pkg = apworld_name
C3_Witness ==
    /\ pc = "done" /\ exc = NoExc /\ runs = 2
    /\ Cardinality(DOMAIN sys_modules) = 2
    /\ Len(StdoutValues) = 7

\* C4: a run whose executed module lacks a required table ends with an
\* AttributeError whose message names a table the module lacks (the one
\* lacking, when it is the only one), and has written nothing to stdout.
C4_MissingTable ==
    (pc = "done" /\ Executed
        /\ ~(RequiredSet \subseteq DOMAIN module_attrs[data_module])) =>
      /\ exc.type = "AttributeError"
      /\ exc.arg \in RequiredSet \ DOMAIN module_attrs[data_module]
      /\ stdout = <<>>
C4_Witness ==
    /\ pc = "done" /\ exc.type = "AttributeError" /\ exc.arg = "region_table"
    /\ DOMAIN module_attrs[data_module] = Attrs \ {"region_table"}
    /\ stdout = <<>>

\* C5: a module with the four required tables never fails for want of an
\* optional one, and the document a run emits is one object whose keys are
\* the seven file names in order, each required key with the module's table
\* and each optional key with the module's table, or null when undefined.
C5_Document ==
    /\ (pc = "done" /\ Executed
          /\ RequiredSet \subseteq DOMAIN module_attrs[data_module]
          /\ \A a \in DOMAIN module_attrs[data_module] :
               Serializable(module_attrs[data_module][a])) => exc = NoExc
    /\ (pc = "done" /\ exc = NoExc) =>
         LET attrs == module_attrs[data_module]
             opt(a) == IF a \in DOMAIN attrs THEN attrs[a] ELSE PyNone
         IN  /\ RequiredSet \subseteq DOMAIN attrs
             /\ Head(stdout) = LBrace
             /\ stdout[Len(stdout)] = RBrace
             /\ Cardinality({i \in 1..Len(stdout) : stdout[i] \in {LBrace, RBrace}}) = 2
             /\ StdoutKeys = <<"game.json", "items.json", "locations.json",
                               "regions.json", "categories.json",
                               "options.json", "meta.json">>
             /\ StdoutValues = <<attrs["game_table"], attrs["item_table"],
                                 attrs["location_table"], attrs["region_table"],
                                 opt("category_table"), opt("option_table"),
                                 opt("meta_table")>>
C5_Witness ==
    /\ pc = "done" /\ exc = NoExc
    /\ DOMAIN module_attrs[data_module] = RequiredSet \cup {"option_table"}
    /\ StdoutValues[5] = PyNone /\ StdoutValues[6] = PyTable(apworld_name, "option_table")

\* C6: a package name is chosen, and the run goes on to load it, only when
\* the staging directory has exactly one top-level entry.
C6_LayoutChecked ==
    (apworld_name # "" /\ tmp_exists) => Cardinality(tmp_entries) = 1

\* C7: while the archive path or the repository path is missing, a step of
\* the run only checks the configuration: it ends the run with the
\* configuration error, or passes a present archive path on to the second
\* check, and it leaves the archive, the staging directory, sys.path,
\* sys.modules and stdout as they were.
C7_ConfigFirst ==
    [][(MissingConfig /\ pc \notin {"idle", "done"}) =>
         /\ pc' \in {"repo", "done"}
         /\ pc' = "repo" => ~Missing(environ.APWORLD_PATH)
         /\ pc' = "done" => exc'.type = "Exception" /\ exc'.line \in {14, 18}
         /\ apworld_zip' = "closed"
         /\ temp_world_folder' = "unbound"
         /\ stdout' = <<>>
         /\ UNCHANGED <<tmp_exists, tmp_entries, sys_path, sys_modules,
                        module_attrs, exec_count>>]_vars
C7_Witness ==
    /\ pc = "done" /\ exc.line = 18 /\ environ.ARCHIPELAGO_REPO_PATH = PyStr(<<>>)
    /\ apworld_zip = "closed" /\ temp_world_folder = "unbound" /\ stdout = <<>>

\* C8 as stated: an absent, empty or non-numeric pretty_indent never crashes
\* the run and gives the compact single-line output of no formatting input.
ClaimNonNumeric(v) ==
    v = PyNone \/ (v.t = "str" /\ v.s \in {<<>>, <<" ", " ">>, <<"a", "b", "c">>, <<"-", "2">>})
C8_Original ==
    /\ ClaimNonNumeric(environ.DEBUG_INDENT) => exc.line # 23
    /\ (pc = "done" /\ exc = NoExc /\ ClaimNonNumeric(environ.DEBUG_INDENT)) =>
         SingleLine /\ stdout = json_dump(table_dict, PyNone).out

\* C8 amended: an absent, empty or non-numeric pretty_indent never crashes the
\* run; an absent one gives the compact single-line output, and a string that
\* is empty or not all digits is itself the indent unit: every member of the
\* document starts a new line that begins with that string.
C8_Amended ==
    /\ ClaimNonNumeric(environ.DEBUG_INDENT) => exc.line # 23
    /\ (pc = "done" /\ exc = NoExc /\ environ.DEBUG_INDENT = PyNone) => SingleLine
    /\ (pc = "done" /\ exc = NoExc /\ environ.DEBUG_INDENT # PyNone
          /\ ClaimNonNumeric(environ.DEBUG_INDENT)) =>
         /\ ~SingleLine
         /\ \A i \in 1..Len(stdout) :
              stdout[i].k = "key" =>
                i > 1 /\ stdout[i - 1] = NewLine(environ.DEBUG_INDENT.s)
         /\ stdout[Len(stdout) - 1] = NewLine(<<>>)
C8_Witness ==
    /\ pc = "done" /\ exc = NoExc
    /\ environ.DEBUG_INDENT = PyStr(<<"a", "b", "c">>)
    /\ stdout[2] = NewLine(<<"a", "b", "c">>)

\* C9: an exception raised while Data.py runs stays in flight through the
\* finally clause and the with block to the end of the run; the dict of
\* tables is never built and nothing is written to stdout.
C9_Propagates ==
    [][(exc.line = 54 /\ pc # "done") =>
         /\ pc' \in {"unwind", "done"}
         /\ exc' = exc
         /\ table_dict' = <<>>
         /\ stdout' = <<>>]_vars
C9_Witness ==
    /\ pc = "done" /\ exc = Exc("PluginError", "plugin", 54)
    /\ table_dict = <<>> /\ stdout = <<>>

\* C10: when Data.py is about to run, its module object is the one registered
\* under the run's key, has an empty namespace and has never been executed;
\* from then on its code has been executed exactly once, and no module object
\* is ever executed twice.
C10_ExecutedOnce ==
    /\ pc \in {"path", "exec"} =>
         /\ module_key \in DOMAIN sys_modules
         /\ sys_modules[module_key] = data_module
         /\ DOMAIN module_attrs[data_module] = {}
         /\ exec_count[data_module] = 0
    /\ (data_module # 0 /\ pc \in {"finally", "build", "dump", "exit", "unwind", "done"}) =>
         exec_count[data_module] = 1
    /\ \A m \in DOMAIN exec_count : exec_count[m] <= 1
C10_Witness ==
    /\ pc = "exec" /\ runs = 2 /\ data_module = 2
    /\ DOMAIN sys_modules = {module_key}

====
